---- MODULE Spec2Model ----
(***************************************************************************)
(* Model of pyaudioaliasingmetrics: the SNR and SINAD estimators           *)
(* (audioaliasingmetrics/snr.py, sinad.py) and the peak utilities they     *)
(* share (audioaliasingmetrics/utils.py).                                  *)
(*                                                                         *)
(* The library is a set of functions over caller-owned arrays.  The state  *)
(* is the caller's arrays, the call that was made and what it returned.    *)
(* Each public function is one action, which performs the whole call.      *)
(*                                                                         *)
(* Floating point numbers are modelled as exact fractions <<n, d>> with    *)
(* d >= 0; <<1, 0>> is +inf and <<0, 0>> is NaN.  Rounding is not          *)
(* modelled.  Arrays are sequences; the code's 0-based index i is element  *)
(* i + 1 of the sequence.                                                  *)
(***************************************************************************)
EXTENDS Integers, Sequences, FiniteSets

VARIABLES magnitude, noisy_magnitudes, clean_magnitudes, ps, call, result

vars == <<magnitude, noisy_magnitudes, clean_magnitudes, ps, call, result>>

(***************************************************************************)
(* Bounds of the model.                                                    *)
(***************************************************************************)
\* length of every spectrum
NumBins == 5
\* largest magnitude of an input bin
MaxVal == 2
\* largest multiplier in an explicit harmonic list
MaxHarm == 4

(***************************************************************************)
(* Program constants.                                                      *)
(***************************************************************************)
\* find_peak_bin_from_freq(..., search_width_hz=10)
DefaultSearchWidthHz == 10
\* find_peak_bins(..., search_width=1000)
DefaultSkirtWidth == 1000

(***************************************************************************)
(* Floating point values.                                                  *)
(***************************************************************************)
RECURSIVE GCD(_, _)
GCD(a, b) == IF b = 0 THEN a ELSE GCD(b, a % b)

Abs(x) == IF x < 0 THEN -x ELSE x

NaN == <<0, 0>>
Inf == <<1, 0>>

Frac(n, d) ==
    IF d = 0 THEN (IF n = 0 THEN NaN ELSE Inf)
    ELSE LET g == GCD(Abs(n), d) IN <<n \div g, d \div g>>

F(n) == <<n, 1>>

IsNaN(a) == a = NaN
IsFinite(a) == a[2] > 0

FAdd(a, b) ==
    IF a[2] = 0 \/ b[2] = 0
    THEN (IF IsNaN(a) \/ IsNaN(b) THEN NaN ELSE Inf)
    ELSE Frac(a[1] * b[2] + b[1] * a[2], a[2] * b[2])

FSub(a, b) ==
    IF a[2] = 0 \/ b[2] = 0
    THEN (IF IsNaN(a) \/ b[2] = 0 THEN NaN ELSE Inf)
    ELSE Frac(a[1] * b[2] - b[1] * a[2], a[2] * b[2])

FMul(a, b) ==
    IF a[2] = 0 \/ b[2] = 0
    THEN (IF a[1] = 0 \/ b[1] = 0 THEN NaN ELSE Inf)
    ELSE Frac(a[1] * b[1], a[2] * b[2])

\* the operands of every division of the program are >= 0
FDiv(a, b) ==
    IF IsNaN(a) \/ IsNaN(b) THEN NaN
    ELSE IF a[2] = 0 THEN (IF b[2] = 0 THEN NaN ELSE Inf)
    ELSE IF b[2] = 0 THEN F(0)
    ELSE IF b[1] = 0 THEN (IF a[1] = 0 THEN NaN ELSE Inf)
    ELSE Frac(a[1] * b[2], a[2] * b[1])

\* a > b; every comparison with NaN is false
FGt(a, b) ==
    /\ ~IsNaN(a)
    /\ ~IsNaN(b)
    /\ IF a[2] = 0 THEN b[2] # 0
       ELSE IF b[2] = 0 THEN FALSE
       ELSE a[1] * b[2] > b[1] * a[2]

(***************************************************************************)
(* numpy and Python primitives.                                            *)
(***************************************************************************)
\* a[i], a negative index counting from the end
At(a, i) == IF i < 0 THEN a[Len(a) + i + 1] ELSE a[i + 1]

ClampIdx(n, i) ==
    LET j == IF i < 0 THEN i + n ELSE i
    IN IF j < 0 THEN 0 ELSE IF j > n THEN n ELSE j

\* a[lo:hi]
PySlice(a, lo, hi) == SubSeq(a, ClampIdx(Len(a), lo) + 1, ClampIdx(Len(a), hi))

\* a[idx] for an index array idx
Take(a, idx) == [k \in 1..Len(idx) |-> At(a, idx[k])]

RECURSIVE sum_range(_, _, _)
sum_range(a, lo, hi) ==
    IF lo > hi THEN F(0)
    ELSE IF lo = hi THEN a[lo]
    ELSE LET mid == (lo + hi) \div 2
         IN FAdd(sum_range(a, lo, mid), sum_range(a, mid + 1, hi))

\* np.sum(a), which adds pairwise; the fractions are exact, so the order of
\* the additions does not change the sum
np_sum(a) == sum_range(a, 1, Len(a))

np_square(a) == [k \in 1..Len(a) |-> FMul(a[k], a[k])]

RECURSIVE KeepUnless(_, _, _)
KeepUnless(a, drop, i) ==
    IF i >= Len(a) THEN <<>>
    ELSE (IF i \in drop THEN <<>> ELSE <<a[i + 1]>>) \o KeepUnless(a, drop, i + 1)

\* np.delete(a, idx): a without the elements idx names
np_delete(a, idx) ==
    KeepUnless(a, {IF idx[k] < 0 THEN idx[k] + Len(a) ELSE idx[k] : k \in 1..Len(idx)}, 0)

RECURSIVE argmax_from(_, _, _)
argmax_from(a, i, best) ==
    IF i >= Len(a) THEN best
    ELSE argmax_from(a, i + 1, IF FGt(a[i + 1], a[best + 1]) THEN i ELSE best)

\* np.argmax(a): the first index of the largest value
np_argmax(a) == argmax_from(a, 1, 0)

RECURSIVE np_arange(_, _, _)
np_arange(start, stop, step) ==
    IF start >= stop THEN <<>> ELSE <<start>> \o np_arange(start + step, stop, step)

RECURSIVE InsertSorted(_, _)
InsertSorted(x, s) ==
    IF s = <<>> THEN <<x>>
    ELSE IF x <= s[1] THEN <<x>> \o s
    ELSE <<s[1]>> \o InsertSorted(x, Tail(s))

RECURSIVE np_sort(_)
np_sort(a) == IF a = <<>> THEN <<>> ELSE InsertSorted(a[1], np_sort(Tail(a)))

\* floor(x / y) and ceil(x / y) for y > 0
FloorDiv(x, y) == x \div y
CeilDiv(x, y) == -((-x) \div y)

(***************************************************************************)
(* utils.py                                                                *)
(***************************************************************************)
Policies == {"ALL", "ODD", "EVEN"}

\* compute_harmonics with np.arange stopping one multiplier early
compute_harmonics_short(self, fundamental, samplerate) ==
    LET top == FloorDiv(samplerate, 2 * fundamental)
    IN IF self = "ALL" THEN np_arange(2, top, 1)
       ELSE IF self = "ODD" THEN np_arange(3, top, 2)
       ELSE np_arange(2, top, 2)

\* Harmonics.compute_harmonics; floor(nyquist / fundamental) with
\* nyquist = samplerate / 2 is floor(samplerate / (2 * fundamental))
compute_harmonics(self, fundamental, samplerate) ==
    LET top == FloorDiv(samplerate, 2 * fundamental)
    IN IF self = "ALL" THEN np_arange(2, top + 1, 1)
       ELSE IF self = "ODD" THEN np_arange(3, top + 1, 2)
       ELSE np_arange(2, top + 1, 2)

\* hint_idx = floor(2.0 * freq_hint / sr * (num_bins - 1))
hint_idx_of(freq_hint, num_bins, sr) == FloorDiv(2 * freq_hint * (num_bins - 1), sr)

\* search_width = ceil(search_width_hz / (sr / 2.0) * (num_bins - 1))
search_width_of(search_width_hz, num_bins, sr) ==
    CeilDiv(2 * search_width_hz * (num_bins - 1), sr)

Min(a, b) == IF a < b THEN a ELSE b

\* is_peak on the three-element view; when the view has only two elements
\* the unchecked read of slice_of_3[2] yields the value stored after it
is_peak(slice_of_3, past_end) ==
    /\ FGt(slice_of_3[2], slice_of_3[1])
    /\ FGt(slice_of_3[2], IF Len(slice_of_3) >= 3 THEN slice_of_3[3] ELSE past_end)

\* the indices of ps_slice that is_peak(ps_slice[idx - 1 : idx + 2]) reads,
\* when the test before "and" lets it run
is_peak_reads(ps_slice, idx, tested) ==
    IF ~tested THEN {}
    ELSE {idx - 1, idx} \cup
         (IF FGt(At(ps_slice, idx), At(ps_slice, idx - 1)) THEN {idx + 1} ELSE {})

\* the loop and the fallback of find_nearest_peak_around: the index returned
\* and the indices of ps_slice read
RECURSIVE nearest_scan(_, _, _, _, _, _)
nearest_scan(ps_slice, center, search_width, past_end, i, reads) ==
    IF i >= search_width
    THEN [ret |-> np_argmax(ps_slice), reads |-> reads \cup 0..(Len(ps_slice) - 1)]
    ELSE IF /\ center + i + 1 < Len(ps_slice)
            /\ is_peak(PySlice(ps_slice, center + i - 1, center + i + 2), past_end)
    THEN [ret |-> center + i,
          reads |-> reads \cup is_peak_reads(ps_slice, center + i, TRUE)]
    ELSE IF /\ center - i - 1 >= 0
            /\ is_peak(PySlice(ps_slice, center - i - 1, center - i + 2), past_end)
    THEN [ret |-> center - i,
          reads |-> reads
                    \cup is_peak_reads(ps_slice, center + i,
                                       center + i + 1 < Len(ps_slice))
                    \cup is_peak_reads(ps_slice, center - i, TRUE)]
    ELSE nearest_scan(ps_slice, center, search_width, past_end, i + 1,
                      reads
                      \cup is_peak_reads(ps_slice, center + i,
                                         center + i + 1 < Len(ps_slice))
                      \cup is_peak_reads(ps_slice, center - i, center - i - 1 >= 0))

\* find_nearest_peak_around; the parameter center is overwritten on entry
find_nearest_peak_around(ps_slice, center, search_width, past_end) ==
    nearest_scan(ps_slice, Len(ps_slice) \div 2, search_width, past_end, 0, {})

\* the return of find_peak_bin_from_freq, and the indices of ps that were read
translate(found, left_limit, hint_idx, search_width) ==
    [ret |-> found.ret + hint_idx - search_width,
     reads |-> {left_limit + r : r \in found.reads}]

\* find_peak_bin_from_freq from left_limit on; garbage is what a read past the
\* end of ps yields
window_search(spectrum, hint_idx, search_width, garbage) ==
    LET left_limit == IF hint_idx - search_width < 0 THEN 0
                      ELSE hint_idx - search_width
        search_center == IF hint_idx - search_width < 0 THEN hint_idx
                         ELSE search_width
        right_limit == Min(Len(spectrum), hint_idx + search_width + 1)
    IN translate(
           find_nearest_peak_around(
               PySlice(spectrum, left_limit, right_limit), search_center, search_width,
               IF right_limit < Len(spectrum) THEN At(spectrum, right_limit)
               ELSE garbage),
           left_limit, hint_idx, search_width)

\* find_peak_bin_from_freq: the index it returns and the indices of ps it reads
peak_search(freq_hint, spectrum, sr, search_width_hz, garbage) ==
    window_search(spectrum, hint_idx_of(freq_hint, Len(spectrum), sr),
                  search_width_of(search_width_hz, Len(spectrum), sr), garbage)

find_peak_bin_from_freq(freq_hint, spectrum, sr, search_width_hz, garbage) ==
    peak_search(freq_hint, spectrum, sr, search_width_hz, garbage).ret

RECURSIVE walk_before(_, _, _, _, _)
walk_before(peak_idx, spectrum, search_width, i, crt_val) ==
    IF i >= search_width THEN <<>>
    ELSE LET new_bin == peak_idx - i
         IN IF new_bin < 0 THEN <<>>
            ELSE IF FGt(At(spectrum, new_bin), crt_val) THEN <<>>
            ELSE <<new_bin>> \o walk_before(peak_idx, spectrum, search_width, i + 1,
                                            At(spectrum, new_bin))

RECURSIVE walk_after(_, _, _, _, _)
walk_after(peak_idx, spectrum, search_width, i, crt_val) ==
    IF i >= search_width THEN <<>>
    ELSE LET new_bin == peak_idx + i
         IN IF new_bin >= Len(spectrum) THEN <<>>
            ELSE IF FGt(At(spectrum, new_bin), crt_val) THEN <<>>
            ELSE <<new_bin>> \o walk_after(peak_idx, spectrum, search_width, i + 1,
                                           At(spectrum, new_bin))

\* find_peak_bins: the bins appended by the walk before the peak, then the
\* bins appended by the walk after it
find_peak_bins(peak_idx, spectrum, search_width) ==
    walk_before(peak_idx, spectrum, search_width, 0, At(spectrum, peak_idx)) \o
    walk_after(peak_idx, spectrum, search_width, 0, At(spectrum, peak_idx))


(***************************************************************************)
(* snr.py                                                                  *)
(***************************************************************************)
\* the harmonics argument: a Harmonics member or a list of multipliers
EnumArg(policy) == [kind |-> "enum", policy |-> policy, list |-> <<>>]
ListArg(list) == [kind |-> "list", policy |-> "none", list |-> list]

\* the loops "for harmonic_factor in harmonics" of inner_snr and inner_sinad:
\* the peak of each harmonic is located in locate_in, its bins are found in
\* walk_in, and the bins are appended
RECURSIVE harmonics_loop(_, _, _, _, _, _, _)
harmonics_loop(harmonics, k, fundamental, samplerate, locate_in, walk_in, garbage) ==
    IF k > Len(harmonics) THEN <<>>
    ELSE find_peak_bins(
             find_peak_bin_from_freq(harmonics[k] * fundamental, locate_in, samplerate,
                                     DefaultSearchWidthHz, garbage),
             walk_in, DefaultSkirtWidth) \o
         harmonics_loop(harmonics, k + 1, fundamental, samplerate, locate_in, walk_in,
                        garbage)

\* a[1:]
drop_first(a) == PySlice(a, 1, Len(a))

\* inner_snr from "return": ret is the argument of 10 * log10
snr_return(fund_bin, fund_peak_bins, harmonics_bins, signal_power, noise_power) ==
    [fund_bin |-> fund_bin,
     fund_peak_bins |-> fund_peak_bins,
     harmonics_bins |-> harmonics_bins,
     signal_power |-> signal_power,
     noise_power |-> noise_power,
     ret |-> FDiv(signal_power, noise_power)]

\* inner_snr from "Compute the signal power" on
snr_powers(periodigram, harmonics_excluded, fund_bin, fund_peak_bins, harmonics_bins) ==
    snr_return(fund_bin, fund_peak_bins, harmonics_bins,
               np_sum(Take(periodigram,
                           IF harmonics_excluded THEN fund_peak_bins
                           ELSE fund_peak_bins \o harmonics_bins)),
               np_sum(drop_first(np_delete(periodigram,
                                           fund_peak_bins \o harmonics_bins))))

\* inner_snr once the bin of the fundamental is known
snr_bins(periodigram, samplerate, fundamental, harmonics, harmonics_excluded, garbage, fund_bin) ==
    snr_powers(periodigram, harmonics_excluded, fund_bin,
               find_peak_bins(fund_bin, periodigram, DefaultSkirtWidth),
               harmonics_loop(harmonics, 1, fundamental, samplerate, periodigram,
                              periodigram, garbage))

inner_snr(periodigram, samplerate, fundamental, harmonics, harmonics_excluded, garbage) ==
    snr_bins(periodigram, samplerate, fundamental, harmonics, harmonics_excluded, garbage,
             find_peak_bin_from_freq(fundamental, periodigram, samplerate,
                                     DefaultSearchWidthHz, garbage))

\* the validation done by snr and the harmonic vector it builds
snr_harmonics(samplerate, fundamental, harmonics) ==
    IF samplerate <= 0
    THEN [error |-> "Invalid samplerate value", harmonics |-> <<>>]
    ELSE IF fundamental <= 0 \/ 2 * fundamental > samplerate
    THEN [error |-> "Invalid fundamental value", harmonics |-> <<>>]
    ELSE IF harmonics.kind = "list"
    THEN IF Len(harmonics.list) > 0
         THEN LET sorted == np_sort(harmonics.list)
                  top_harmonic == FloorDiv(samplerate, 2 * fundamental)
              IN IF sorted[1] < 2
                 THEN [error |-> "Harmonics values must be >=2", harmonics |-> <<>>]
                 ELSE IF sorted[Len(sorted)] > top_harmonic
                 THEN [error |-> "the highest harmonic value should be top_harmonic",
                       harmonics |-> <<>>]
                 ELSE [error |-> "none", harmonics |-> sorted]
         ELSE [error |-> "none", harmonics |-> harmonics.list]
    ELSE [error |-> "none",
          harmonics |-> compute_harmonics(harmonics.policy, fundamental, samplerate)]

\* snr after the validation, h being what it gave: what it returns or raises,
\* and the caller's array after the call (np.square returns a new array)
snr_dispatch(mag, samplerate, fundamental, harmonics_excluded, garbage, h) ==
    IF h.error # "none"
    THEN [outcome |-> "ValueError", message |-> h.error, magnitude |-> mag]
    ELSE [outcome |-> "ok", harmonics |-> h.harmonics, magnitude |-> mag,
          inner |-> inner_snr(np_square(mag), samplerate, fundamental, h.harmonics,
                              harmonics_excluded, garbage)]

snr(mag, samplerate, fundamental, harmonics, harmonics_excluded, garbage) ==
    snr_dispatch(mag, samplerate, fundamental, harmonics_excluded, garbage,
                 snr_harmonics(samplerate, fundamental, harmonics))

(***************************************************************************)
(* sinad.py                                                                *)
(***************************************************************************)
\* scale_in_place leaving the DC bin as it was
scale_all_but_dc(noisy, mag_ratio) ==
    [k \in 1..Len(noisy) |-> IF k = 1 THEN noisy[k] ELSE FMul(noisy[k], mag_ratio)]

\* noisy_magnitudes *= mag_ratio
scale_in_place(noisy, mag_ratio) == [k \in 1..Len(noisy) |-> FMul(noisy[k], mag_ratio)]

\* noisy_magnitudes - clean_magnitudes
np_subtract(a, b) == [k \in 1..Len(a) |-> FSub(a[k], b[k])]

\* a[bins[0] : bins[-1]]
skirt_range(a, bins) == PySlice(a, bins[1], bins[Len(bins)])

\* inner_sinad from "return": ret is the argument of 10 * log10
sinad_return(fund_bin, fund_peak_bins, mag_ratio, scaled, psd_noise, harmonics_bins, signal_power, nad_power) ==
    [fund_bin |-> fund_bin,
     fund_peak_bins |-> fund_peak_bins,
     mag_ratio |-> mag_ratio,
     noisy_magnitudes |-> scaled,
     psd_noise |-> psd_noise,
     harmonics_bins |-> harmonics_bins,
     signal_power |-> signal_power,
     nad_power |-> nad_power,
     ret |-> FDiv(FAdd(signal_power, nad_power), nad_power)]

\* inner_sinad from "Compute the signal power" on
sinad_powers(fund_bin, fund_peak_bins, mag_ratio, scaled, psd_clean, psd_noise, harmonics_bins) ==
    sinad_return(fund_bin, fund_peak_bins, mag_ratio, scaled, psd_noise, harmonics_bins,
                 np_sum(Take(psd_clean, fund_peak_bins \o harmonics_bins)),
                 np_sum(drop_first(np_delete(psd_noise, fund_peak_bins))))

\* inner_sinad from "Compute the PSD after normalization" on
sinad_psd(clean, samplerate, fundamental, harmonics, garbage, fund_bin, fund_peak_bins, mag_ratio, scaled) ==
    sinad_powers(fund_bin, fund_peak_bins, mag_ratio, scaled, np_square(clean),
                 np_square(np_subtract(scaled, clean)),
                 harmonics_loop(harmonics, 1, fundamental, samplerate, np_square(clean),
                                np_square(scaled), garbage))

\* inner_sinad once mag_ratio is known
sinad_scale(noisy, clean, samplerate, fundamental, harmonics, garbage, fund_bin, fund_peak_bins, mag_ratio) ==
    sinad_psd(clean, samplerate, fundamental, harmonics, garbage, fund_bin,
              fund_peak_bins, mag_ratio, scale_in_place(noisy, mag_ratio))

\* inner_sinad once the bins of the fundamental are known
sinad_normalize(noisy, clean, samplerate, fundamental, harmonics, garbage, fund_bin, fund_peak_bins) ==
    sinad_scale(noisy, clean, samplerate, fundamental, harmonics, garbage, fund_bin,
                fund_peak_bins,
                FDiv(np_sum(skirt_range(noisy, fund_peak_bins)),
                     np_sum(skirt_range(clean, fund_peak_bins))))

\* inner_sinad once the bin of the fundamental is known
sinad_bins(noisy, clean, samplerate, fundamental, harmonics, garbage, fund_bin) ==
    sinad_normalize(noisy, clean, samplerate, fundamental, harmonics, garbage, fund_bin,
                    find_peak_bins(fund_bin, noisy, DefaultSkirtWidth))

inner_sinad(noisy, clean, samplerate, fundamental, harmonics, garbage) ==
    sinad_bins(noisy, clean, samplerate, fundamental, harmonics, garbage,
               find_peak_bin_from_freq(fundamental, noisy, samplerate,
                                       DefaultSearchWidthHz, garbage))

\* sinad_harmonics checking the list as given, without np.sort
sinad_harmonics_unsorted(samplerate, fundamental, harmonics) ==
    IF samplerate <= 0
    THEN [error |-> "Invalid samplerate value", harmonics |-> <<>>]
    ELSE IF fundamental <= 0 \/ 2 * fundamental > samplerate
    THEN [error |-> "Invalid fundamental value", harmonics |-> <<>>]
    ELSE IF harmonics.kind = "list"
    THEN IF Len(harmonics.list) > 0
         THEN LET sorted == harmonics.list
                  top_harmonic == FloorDiv(samplerate, 2 * fundamental)
              IN IF sorted[1] < 2
                 THEN [error |-> "Harmonics values must be >=2", harmonics |-> <<>>]
                 ELSE IF sorted[Len(sorted)] > top_harmonic
                 THEN [error |-> "the highest harmonic value should be top_harmonic",
                       harmonics |-> <<>>]
                 ELSE [error |-> "none", harmonics |-> sorted]
         ELSE [error |-> "none", harmonics |-> harmonics.list]
    ELSE [error |-> "none",
          harmonics |-> compute_harmonics(harmonics.policy, fundamental, samplerate)]

\* the validation done by sinad and the harmonic vector it builds
sinad_harmonics(samplerate, fundamental, harmonics) ==
    IF samplerate <= 0
    THEN [error |-> "Invalid samplerate value", harmonics |-> <<>>]
    ELSE IF fundamental <= 0 \/ 2 * fundamental > samplerate
    THEN [error |-> "Invalid fundamental value", harmonics |-> <<>>]
    ELSE IF harmonics.kind = "list"
    THEN IF Len(harmonics.list) > 0
         THEN LET sorted == np_sort(harmonics.list)
                  top_harmonic == FloorDiv(samplerate, 2 * fundamental)
              IN IF sorted[1] < 2
                 THEN [error |-> "Harmonics values must be >=2", harmonics |-> <<>>]
                 ELSE IF sorted[Len(sorted)] > top_harmonic
                 THEN [error |-> "the highest harmonic value should be top_harmonic",
                       harmonics |-> <<>>]
                 ELSE [error |-> "none", harmonics |-> sorted]
         ELSE [error |-> "none", harmonics |-> harmonics.list]
    ELSE [error |-> "none",
          harmonics |-> compute_harmonics(harmonics.policy, fundamental, samplerate)]

\* the caller's arrays after inner_sinad returned
sinad_ok(h, clean, inner) ==
    [outcome |-> "ok", harmonics |-> h.harmonics,
     noisy_magnitudes |-> inner.noisy_magnitudes,
     clean_magnitudes |-> clean,
     inner |-> inner]

\* sinad after the validation, h being what it gave: what it returns or raises,
\* and the caller's arrays after the call
sinad_dispatch(noisy, clean, samplerate, fundamental, garbage, h) ==
    IF h.error # "none"
    THEN [outcome |-> "ValueError", message |-> h.error,
          noisy_magnitudes |-> noisy, clean_magnitudes |-> clean]
    ELSE sinad_ok(h, clean,
                  inner_sinad(noisy, clean, samplerate, fundamental, h.harmonics,
                              garbage))

sinad(noisy, clean, samplerate, fundamental, harmonics, garbage) ==
    sinad_dispatch(noisy, clean, samplerate, fundamental, garbage,
                   sinad_harmonics(samplerate, fundamental, harmonics))

(***************************************************************************)
(* Inputs.                                                                 *)
(***************************************************************************)
Bins == 0..(NumBins - 1)

\* every spectrum of NumBins magnitudes in 0..MaxVal
Spectra == {[k \in 1..NumBins |-> F(m[k])] : m \in [1..NumBins -> 0..MaxVal]}

\* a peak of height v at bin b on a floor of 1
PeakSpectrum(b, v) == [k \in 1..NumBins |-> IF k = b + 1 THEN F(v) ELSE F(1)]
PeakSpectra == {PeakSpectrum(b, v) : b \in Bins, v \in 2..MaxVal}

\* a noisy spectrum: the clean one, or the clean one with one bin raised by 1
Raised(clean, b) ==
    [k \in 1..NumBins |-> IF k = b + 1 THEN FAdd(clean[k], F(1)) ELSE clean[k]]
NoisyOf(clean) == {clean} \cup {Raised(clean, b) : b \in Bins}

\* the sample rate at which the 10 Hz search width is one bin, and two bins
SampleRateOne == 2 * DefaultSearchWidthHz * (NumBins - 1)
SampleRateTwo == DefaultSearchWidthHz * (NumBins - 1)
SampleRates == {SampleRateOne, SampleRateTwo}
\* with the sample rates that snr and sinad refuse
AnySampleRates == SampleRates \cup {0, -SampleRateOne}

\* frequencies in Hz: 5 falls in bin 0 and 10 * b in bin b at SampleRateOne
Frequencies == {5} \cup {10 * b : b \in 1..(NumBins - 1)}
\* with the fundamentals that snr and sinad refuse
AnyFrequencies == Frequencies \cup {-5, 0, 10 * (NumBins - 1) + 5}

Multipliers == 1..MaxHarm
HarmonicLists ==
    {<<>>} \cup {<<a>> : a \in Multipliers} \cup {<<a, b>> : a, b \in Multipliers}
AnyHarmonics == {EnumArg(p) : p \in Policies} \cup {ListArg(l) : l \in HarmonicLists}
SomeHarmonics ==
    {EnumArg(p) : p \in Policies} \cup {ListArg(<<>>), ListArg(<<2>>), ListArg(<<3, 2>>)}

\* what a read past the end of an array may yield: a value below every peak,
\* or one no value exceeds
Garbage == {F(0), Inf}

NoCall == [op |-> "none"]
NoResult == [outcome |-> "none"]

(***************************************************************************)
(* The calls.                                                              *)
(***************************************************************************)
Snr(samplerate, fundamental, harmonics, harmonics_excluded) ==
    /\ call.op = "none"
    /\ magnitude # <<>>
    /\ \E garbage \in Garbage :
         result' = snr(magnitude, samplerate, fundamental, harmonics,
                       harmonics_excluded, garbage)
    /\ magnitude' = result'.magnitude
    /\ call' = [op |-> "snr", magnitude |-> magnitude, samplerate |-> samplerate,
                fundamental |-> fundamental, harmonics |-> harmonics,
                harmonics_excluded |-> harmonics_excluded]
    /\ UNCHANGED <<noisy_magnitudes, clean_magnitudes, ps>>

Sinad(samplerate, fundamental, harmonics) ==
    /\ call.op = "none"
    /\ noisy_magnitudes # <<>>
    /\ \E garbage \in Garbage :
         result' = sinad(noisy_magnitudes, clean_magnitudes, samplerate, fundamental,
                         harmonics, garbage)
    /\ noisy_magnitudes' = result'.noisy_magnitudes
    /\ clean_magnitudes' = result'.clean_magnitudes
    /\ call' = [op |-> "sinad", noisy_magnitudes |-> noisy_magnitudes,
                clean_magnitudes |-> clean_magnitudes, samplerate |-> samplerate,
                fundamental |-> fundamental, harmonics |-> harmonics]
    /\ UNCHANGED <<magnitude, ps>>

ComputeHarmonics(policy, fundamental, samplerate) ==
    /\ call.op = "none"
    /\ result' = [outcome |-> "ok",
                  ret |-> compute_harmonics(policy, fundamental, samplerate)]
    /\ call' = [op |-> "compute_harmonics", policy |-> policy,
                fundamental |-> fundamental, samplerate |-> samplerate]
    /\ UNCHANGED <<magnitude, noisy_magnitudes, clean_magnitudes, ps>>

FindPeakBinFromFreq(freq_hint, sr, search_width_hz) ==
    /\ call.op = "none"
    /\ ps # <<>>
    /\ \E garbage \in Garbage :
         result' = peak_search(freq_hint, ps, sr, search_width_hz, garbage)
    /\ call' = [op |-> "find_peak_bin_from_freq", freq_hint |-> freq_hint, sr |-> sr,
                search_width_hz |-> search_width_hz]
    /\ UNCHANGED <<magnitude, noisy_magnitudes, clean_magnitudes, ps>>

FindPeakBins(peak_idx) ==
    /\ call.op = "none"
    /\ ps # <<>>
    /\ result' = [outcome |-> "ok",
                  ret |-> find_peak_bins(peak_idx, ps, DefaultSkirtWidth)]
    /\ call' = [op |-> "find_peak_bins", peak_idx |-> peak_idx]
    /\ UNCHANGED <<magnitude, noisy_magnitudes, clean_magnitudes, ps>>

(***************************************************************************)
(* SpecApi: the public entry points on any argument, valid or not, over    *)
(* spectra with one peak.                                                  *)
(***************************************************************************)
InitApi ==
    /\ ps = <<>>
    /\ call = NoCall
    /\ result = NoResult
    /\ \/ /\ magnitude \in PeakSpectra
          /\ noisy_magnitudes = <<>>
          /\ clean_magnitudes = <<>>
       \/ /\ magnitude = <<>>
          /\ clean_magnitudes \in PeakSpectra
          /\ noisy_magnitudes \in NoisyOf(clean_magnitudes)

SnrApi ==
    \E samplerate \in AnySampleRates, fundamental \in AnyFrequencies,
       harmonics \in AnyHarmonics, harmonics_excluded \in BOOLEAN :
        Snr(samplerate, fundamental, harmonics, harmonics_excluded)

SinadApi ==
    \E samplerate \in AnySampleRates, fundamental \in AnyFrequencies,
       harmonics \in AnyHarmonics :
        Sinad(samplerate, fundamental, harmonics)

\* every whole fundamental in (0, Nyquist]
ComputeHarmonicsApi ==
    \E policy \in Policies, samplerate \in SampleRates :
        \E fundamental \in 1..(samplerate \div 2) :
            ComputeHarmonics(policy, fundamental, samplerate)

NextApi == SnrApi \/ SinadApi \/ ComputeHarmonicsApi

SpecApi == InitApi /\ [][NextApi]_vars

(***************************************************************************)
(* SpecMetrics: snr and sinad over every spectrum.                         *)
(***************************************************************************)
InitMetrics ==
    /\ ps = <<>>
    /\ call = NoCall
    /\ result = NoResult
    /\ \/ /\ magnitude \in Spectra
          /\ noisy_magnitudes = <<>>
          /\ clean_magnitudes = <<>>
       \/ /\ magnitude = <<>>
          /\ clean_magnitudes \in Spectra
          /\ noisy_magnitudes \in NoisyOf(clean_magnitudes)

SnrMetrics ==
    \E samplerate \in SampleRates, fundamental \in Frequencies,
       harmonics \in SomeHarmonics, harmonics_excluded \in BOOLEAN :
        Snr(samplerate, fundamental, harmonics, harmonics_excluded)

SinadMetrics ==
    \E samplerate \in SampleRates, fundamental \in Frequencies,
       harmonics \in SomeHarmonics :
        Sinad(samplerate, fundamental, harmonics)

NextMetrics == SnrMetrics \/ SinadMetrics

SpecMetrics == InitMetrics /\ [][NextMetrics]_vars

(***************************************************************************)
(* SpecUtils: the peak utilities over every spectrum.                      *)
(***************************************************************************)
InitUtils ==
    /\ ps \in Spectra
    /\ magnitude = <<>>
    /\ noisy_magnitudes = <<>>
    /\ clean_magnitudes = <<>>
    /\ call = NoCall
    /\ result = NoResult

FindPeakBinFromFreqUtils ==
    \E freq_hint \in Frequencies, sr \in SampleRates :
        /\ 2 * freq_hint <= sr
        /\ FindPeakBinFromFreq(freq_hint, sr, DefaultSearchWidthHz)

FindPeakBinsUtils == \E peak_idx \in Bins : FindPeakBins(peak_idx)

NextUtils == FindPeakBinFromFreqUtils \/ FindPeakBinsUtils

SpecUtils == InitUtils /\ [][NextUtils]_vars

\* every call, over the inputs of SpecApi
Init == InitApi
Next == NextApi
Spec == SpecApi

(***************************************************************************)
(* Properties.                                                             *)
(***************************************************************************)
\* every index of the array is a bin of the spectrum
InSpectrum(idx) == \A k \in 1..Len(idx) : idx[k] \in Bins

\* snr returned, and every bin it attributed to a peak is a bin of the spectrum
SnrReturned ==
    /\ call.op = "snr"
    /\ result.outcome = "ok"
    /\ InSpectrum(result.inner.fund_peak_bins \o result.inner.harmonics_bins)

\* sinad returned with a finite gain, and every bin it attributed to a peak is
\* a bin of the spectrum
SinadReturned ==
    /\ call.op = "sinad"
    /\ result.outcome = "ok"
    /\ InSpectrum(result.inner.fund_peak_bins \o result.inner.harmonics_bins)
    /\ IsFinite(result.inner.mag_ratio)

\* the bins an index array names
BinSet(idx) == {idx[k] : k \in 1..Len(idx)}

RECURSIVE SetSum(_, _)
SetSum(a, S) ==
    IF S = {} THEN F(0)
    ELSE LET b == CHOOSE x \in S : TRUE IN FAdd(At(a, b), SetSum(a, S \ {b}))

SetMin(S) == CHOOSE x \in S : \A y \in S : x <= y
SetMax(S) == CHOOSE x \in S : \A y \in S : x >= y

\* what the entry points must refuse
MustRaise(c) ==
    \/ c.samplerate <= 0
    \/ c.fundamental <= 0
    \/ 2 * c.fundamental > c.samplerate
    \/ /\ c.harmonics.kind = "list"
       /\ \E k \in 1..Len(c.harmonics.list) :
            \/ c.harmonics.list[k] < 2
            \/ 2 * c.harmonics.list[k] * c.fundamental > c.samplerate

ArraysAsPassed ==
    /\ call.op = "snr" => magnitude = call.magnitude
    /\ call.op = "sinad" => /\ noisy_magnitudes = call.noisy_magnitudes
                            /\ clean_magnitudes = call.clean_magnitudes

\* C1: snr and sinad raise a validation error, leaving the spectra as they
\* were, exactly when the sample rate is <= 0, the fundamental is <= 0 or
\* above Nyquist, or an explicit list holds a multiplier < 2 or one whose
\* harmonic is above Nyquist; every other call is dispatched.
C1_Validation ==
    call.op \in {"snr", "sinad"} =>
        IF MustRaise(call)
        THEN result.outcome = "ValueError" /\ ArraysAsPassed
        ELSE result.outcome = "ok"

\* an unsorted list whose first element is the one above the bound is refused
C1_Witness ==
    /\ call.op = "sinad"
    /\ call.samplerate > 0
    /\ call.fundamental > 0
    /\ 2 * call.fundamental <= call.samplerate
    /\ call.harmonics.kind = "list"
    /\ Len(call.harmonics.list) = 2
    /\ call.harmonics.list[1] > call.harmonics.list[2]
    /\ call.harmonics.list[2] >= 2
    /\ 2 * call.harmonics.list[1] * call.fundamental > call.samplerate
    /\ 2 * call.harmonics.list[2] * call.fundamental <= call.samplerate
    /\ result.outcome = "ValueError"

\* C2: in SNR mode the signal power is the sum of the periodogram over the
\* set of signal bins, each bin counted once: the fundamental's skirt, with
\* the harmonics' skirts unless harmonics_excluded.
C2_SignalPowerCountsEachBinOnce ==
    SnrReturned =>
        result.inner.signal_power =
            SetSum(np_square(call.magnitude),
                   IF call.harmonics_excluded THEN BinSet(result.inner.fund_peak_bins)
                   ELSE BinSet(result.inner.fund_peak_bins)
                        \cup BinSet(result.inner.harmonics_bins))

\* C3: in SNR mode the noise power is the sum of the periodogram over every
\* bin other than bin 0 and the bins of the skirts, also when bin 0 is in a
\* skirt.
C3_NoisePowerDropsOnlyDcAndSkirts ==
    SnrReturned =>
        result.inner.noise_power =
            SetSum(np_square(call.magnitude),
                   Bins \ ({0} \cup BinSet(result.inner.fund_peak_bins)
                               \cup BinSet(result.inner.harmonics_bins)))

\* (mag_ratio * noisy - clean)^2 on the arrays as passed
ClaimedNoisePower ==
    np_square(np_subtract(
        [k \in 1..NumBins |-> FMul(call.noisy_magnitudes[k], result.inner.mag_ratio)],
        call.clean_magnitudes))

\* C4: in SINAD mode the noise-and-distortion power is the sum of the noise
\* power over every bin other than bin 0 and the bins of the fundamental's
\* skirt, also when bin 0 is in that skirt.
C4_NadPowerDropsOnlyDcAndFundSkirt ==
    SinadReturned =>
        result.inner.nad_power =
            SetSum(ClaimedNoisePower,
                   Bins \ ({0} \cup BinSet(result.inner.fund_peak_bins)))

\* C5: in SINAD mode the gain is sum(noisy[first:last]) / sum(clean[first:last])
\* with first the lowest and last the highest bin of the fundamental's skirt.
C5_GainOverWholeSkirt ==
    SinadReturned =>
        LET first == SetMin(BinSet(result.inner.fund_peak_bins))
            last == SetMax(BinSet(result.inner.fund_peak_bins))
        IN result.inner.mag_ratio =
               FDiv(np_sum(PySlice(call.noisy_magnitudes, first, last)),
                    np_sum(PySlice(call.clean_magnitudes, first, last)))

\* C6: snr leaves its magnitude array as passed; a call that raises leaves
\* every array as passed; sinad that returns leaves the clean array as passed
\* and every noisy bin multiplied by one and the same gain.
C6_OnlySinadScalesNoisy ==
    /\ call.op = "snr" => ArraysAsPassed
    /\ (call.op = "sinad" /\ result.outcome = "ValueError") => ArraysAsPassed
    /\ (call.op = "sinad" /\ result.outcome = "ok") =>
         /\ clean_magnitudes = call.clean_magnitudes
         /\ \E gain \in {result.inner.mag_ratio} :
              \A k \in 1..NumBins :
                  noisy_magnitudes[k] = FMul(call.noisy_magnitudes[k], gain)

\* sinad returned after scaling the noisy array by a finite gain other than 1
C6_Witness ==
    /\ call.op = "sinad"
    /\ result.outcome = "ok"
    /\ IsFinite(result.inner.mag_ratio)
    /\ result.inner.mag_ratio # F(1)
    /\ noisy_magnitudes # call.noisy_magnitudes

\* the largest t with t * fundamental <= samplerate / 2
TopMultiplier(fundamental, samplerate) ==
    CHOOSE t \in 0..samplerate :
        2 * t * fundamental <= samplerate /\ 2 * (t + 1) * fundamental > samplerate

\* seq lists the set S in ascending order
Ascending(seq, S) ==
    /\ Len(seq) = Cardinality(S)
    /\ {seq[k] : k \in 1..Len(seq)} = S
    /\ \A k \in 1..(Len(seq) - 1) : seq[k] < seq[k + 1]

RECURSIVE Merge(_, _)
Merge(a, b) ==
    IF a = <<>> THEN b
    ELSE IF b = <<>> THEN a
    ELSE IF a[1] <= b[1] THEN <<a[1]>> \o Merge(Tail(a), b)
    ELSE <<b[1]>> \o Merge(a, Tail(b))

\* C7: ALL yields 2..top, ODD the odd and EVEN the even multipliers of
\* 2..top (3..top for ODD), ascending, top being floor(Nyquist / fundamental);
\* ALL is the ascending merge of EVEN and ODD; no harmonic is above Nyquist.
C7_HarmonicSeries ==
    call.op = "compute_harmonics" =>
        LET top == TopMultiplier(call.fundamental, call.samplerate)
        IN /\ call.policy = "ALL" =>
                /\ Ascending(result.ret, 2..top)
                /\ result.ret =
                       Merge(compute_harmonics("EVEN", call.fundamental, call.samplerate),
                             compute_harmonics("ODD", call.fundamental, call.samplerate))
           /\ call.policy = "ODD" =>
                Ascending(result.ret, {m \in 3..top : m % 2 = 1})
           /\ call.policy = "EVEN" =>
                Ascending(result.ret, {m \in 2..top : m % 2 = 0})
           /\ \A k \in 1..Len(result.ret) :
                2 * result.ret[k] * call.fundamental <= call.samplerate

\* ODD yielded at least two multipliers, the last one being top itself
C7_Witness ==
    /\ call.op = "compute_harmonics"
    /\ call.policy = "ODD"
    /\ Len(result.ret) >= 2
    /\ result.ret[Len(result.ret)] = TopMultiplier(call.fundamental, call.samplerate)

\* floor(2 * freq_hint / sr * (NumBins - 1))
HintBin ==
    CHOOSE h \in 0..(2 * NumBins) :
        /\ h * call.sr <= 2 * call.freq_hint * (NumBins - 1)
        /\ (h + 1) * call.sr > 2 * call.freq_hint * (NumBins - 1)

\* the search half-width in bins
HalfWidth ==
    CHOOSE w \in 0..(2 * NumBins) :
        /\ w * call.sr >= 2 * call.search_width_hz * (NumBins - 1)
        /\ (w - 1) * call.sr < 2 * call.search_width_hz * (NumBins - 1)

\* the first and last bin of the search window, clamped to the spectrum
WindowLo == IF HintBin - HalfWidth < 0 THEN 0 ELSE HintBin - HalfWidth
WindowHi == Min(NumBins - 1, HintBin + HalfWidth)

\* bins of the window that exceed both neighbours, the neighbours in the window
StrictMaxima ==
    {b \in (WindowLo + 1)..(WindowHi - 1) :
        FGt(At(ps, b), At(ps, b - 1)) /\ FGt(At(ps, b), At(ps, b + 1))}

Distance(b) == Abs(b - HintBin)

\* C8: find_peak_bin_from_freq returns the strict local maximum of the window
\* nearest to the hint bin, the right one at equal distance, and otherwise a
\* bin holding the window's maximum, in the coordinates of the spectrum, also
\* when the window is clamped.
C8_NearestPeakInSpectrumCoordinates ==
    call.op = "find_peak_bin_from_freq" =>
        IF StrictMaxima # {}
        THEN /\ result.ret \in StrictMaxima
             /\ \A c \in StrictMaxima :
                  \/ Distance(result.ret) < Distance(c)
                  \/ Distance(result.ret) = Distance(c) /\ result.ret >= c
        ELSE /\ result.ret \in WindowLo..WindowHi
             /\ \A b \in WindowLo..WindowHi : ~FGt(At(ps, b), At(ps, result.ret))

\* C9: with NumBins above twice the half-width, find_peak_bin_from_freq reads
\* only elements of the clamped window and returns an index of that window.
C9_IndexSafety ==
    (call.op = "find_peak_bin_from_freq" /\ NumBins > 2 * HalfWidth) =>
        /\ result.reads \subseteq WindowLo..WindowHi
        /\ result.ret \in WindowLo..WindowHi

\* C10: find_peak_bins returns a gap-free ascending run of bins that holds
\* the peak bin, every bin once.
C10_SkirtIsAscendingRun ==
    call.op = "find_peak_bins" =>
        /\ \A k \in 1..(Len(result.ret) - 1) : result.ret[k + 1] = result.ret[k] + 1
        /\ result.ret[1] <= call.peak_idx
        /\ call.peak_idx <= result.ret[Len(result.ret)]
        /\ Cardinality({k \in 1..Len(result.ret) : result.ret[k] = call.peak_idx}) = 1

====
